---- MODULE Spec2Model ----
(***************************************************************************)
(* Model of codenames.py: the code name generator.  Text is a sequence of  *)
(* one-character strings; the log file is its character content; a run of  *)
(* main is a process that walks through the statements of main.            *)
(***************************************************************************)
EXTENDS Integers, Sequences, FiniteSets, TLC

\* ------------------------------------------------------------------ bounds
MaxLogLen == 7      \* characters of an arbitrary log file (load specification)
MaxWords == 2       \* length of a word list handed to the sampler
MaxUsed == 2        \* size of an exclusion set handed to the sampler
MaxSourceWords == 1 \* words a word source holds in the runs of main
MaxRuns == 2        \* sequential runs of main

\* ------------------------------------------------------------------ text
SP == " "
NL == "\n"
\* U+0131, LATIN SMALL LETTER DOTLESS I: upper() gives "I", whose lower() is "i"
DOTLESS == "dotless_i"

\* str.upper, one character
UpperChar(c) ==
  CASE c = "a" -> "A"
    [] c = "b" -> "B"
    [] c = "i" -> "I"
    [] c = DOTLESS -> "I"
    [] OTHER -> c

\* str.lower, one character
LowerChar(c) ==
  CASE c = "A" -> "a"
    [] c = "B" -> "b"
    [] c = "I" -> "i"
    [] OTHER -> c

upper(s) == [i \in 1..Len(s) |-> UpperChar(s[i])]

lower(s) == [i \in 1..Len(s) |-> LowerChar(s[i])]

\* the characters str.strip and str.split treat as whitespace
IsSpace(c) == c \in {SP, NL}

RECURSIVE lstrip(_)
lstrip(s) == IF s # <<>> /\ IsSpace(Head(s)) THEN lstrip(Tail(s)) ELSE s

RECURSIVE rstrip(_)
rstrip(s) ==
  IF s # <<>> /\ IsSpace(s[Len(s)]) THEN rstrip(SubSeq(s, 1, Len(s) - 1)) ELSE s

strip(s) == rstrip(lstrip(s))

\* length of the longest prefix of s without whitespace
RECURSIVE WordLen(_)
WordLen(s) == IF s = <<>> \/ IsSpace(Head(s)) THEN 0 ELSE 1 + WordLen(Tail(s))

\* str.split(): the maximal runs of non-whitespace characters, in order
RECURSIVE split(_)
split(s) ==
  LET t == lstrip(s)
      n == WordLen(t)
  IN  IF t = <<>> THEN <<>>
      ELSE <<SubSeq(t, 1, n)>> \o split(SubSeq(t, n + 1, Len(t)))

\* length of the first line of a non-empty text, its "\n" included
RECURSIVE LineLen(_)
LineLen(s) ==
  IF s = <<>> THEN 0 ELSE IF Head(s) = NL THEN 1 ELSE 1 + LineLen(Tail(s))

\* iterating a text file: each line with its "\n", the last one maybe without
RECURSIVE FileLines(_)
FileLines(s) ==
  IF s = <<>> THEN <<>>
  ELSE LET n == LineLen(s)
       IN  <<SubSeq(s, 1, n)>> \o FileLines(SubSeq(s, n + 1, Len(s)))

\* a variant of Join that leaves the space out
JoinNoSpace(adj, noun) == adj \o noun

\* f"{adj} {noun}"
Join(adj, noun) == adj \o <<SP>> \o noun

\* ------------------------------------------------------------------ exclusion loader
\* a variant of the loop that takes the first two tokens of any longer line too
RECURSIVE ParseUsedAtLeastTwo(_, _, _)
ParseUsedAtLeastTwo(lines, ua, un) ==
  IF lines = <<>> THEN <<ua, un>>
  ELSE LET words == split(strip(Head(lines)))
       IN  IF Len(words) >= 2
           THEN ParseUsedAtLeastTwo(Tail(lines), ua \cup {lower(words[1])},
                                    un \cup {lower(words[2])})
           ELSE ParseUsedAtLeastTwo(Tail(lines), ua, un)

\* a variant of the loop that keeps the case of the tokens
RECURSIVE ParseUsedRaw(_, _, _)
ParseUsedRaw(lines, ua, un) ==
  IF lines = <<>> THEN <<ua, un>>
  ELSE LET words == split(strip(Head(lines)))
       IN  IF Len(words) = 2
           THEN ParseUsedRaw(Tail(lines), ua \cup {words[1]}, un \cup {words[2]})
           ELSE ParseUsedRaw(Tail(lines), ua, un)

\* one pass of the for loop of load_used_code_names over the remaining lines
RECURSIVE ParseUsed(_, _, _)
ParseUsed(lines, ua, un) ==
  IF lines = <<>> THEN <<ua, un>>
  ELSE LET words == split(strip(Head(lines)))
       IN  IF Len(words) = 2
           THEN ParseUsed(Tail(lines), ua \cup {lower(words[1])}, un \cup {lower(words[2])})
           ELSE ParseUsed(Tail(lines), ua, un)

\* ------------------------------------------------------------------ state
Procs == {1, 2}

VARIABLES
  log_exists,            \* the log file exists
  log,                   \* its content
  adj_source,            \* the words the adjective source holds
  noun_source,           \* the words the noun source holds
  runs,                  \* runs of main started so far
  appends,               \* appends to the log file made so far
  earlier,               \* [adj, noun] of the names earlier finished runs appended
  pc,                    \* where each run of main stands
  used_code_names_file,  \* argument of main: a log path is given
  append,                \* argument of main: the append flag
  adjectives,            \* local of main
  nouns,                 \* local of main
  used_adjectives,       \* the set main passes to the sampler
  used_nouns,
  available_adjectives,  \* locals of generate_unique_code_name
  available_nouns,
  adj,                   \* the last draw, <<>> before any
  noun,
  code_name,             \* <<>> is None, <<s>> is the string s
  draws,                 \* passes through the body of the while loop
  ret_line,              \* the return statement the sampler left by, 0 before
  printed,               \* the messages this run printed
  printed_name,          \* the code name this run printed, <<>> if none
  exc,                   \* the exception that ended this run, "" if none
  log_at_start,          \* history: the log file when this run started
  used_at_call,          \* history: the exclusion sets when the sampler was called
  seen                   \* history: the appends made before this run read the log

file_vars == <<log_exists, log>>
source_vars == <<adj_source, noun_source>>
arg_vars == <<used_code_names_file, append>>
word_vars == <<adjectives, nouns>>
used_vars == <<used_adjectives, used_nouns>>
sampler_vars == <<available_adjectives, available_nouns, adj, noun, code_name, draws, ret_line>>
out_vars == <<printed, printed_name, exc>>
hist_vars == <<log_at_start, used_at_call, seen>>
vars == <<file_vars, source_vars, runs, appends, earlier, pc, arg_vars, word_vars,
          used_vars, sampler_vars, out_vars, hist_vars>>

None == <<>>
Some(x) == <<x>>

\* ------------------------------------------------------------------ inputs
\* the words a list handed to the sampler may hold: plain, upper case, two
\* tokens, dotless i
AdjUniverse == {<<"a">>, <<"A">>, <<"a", SP, "b">>}
NounUniverse == {<<"b">>, <<DOTLESS>>}

\* the words a word source may hold in the runs of main
SourceAdjUniverse == {<<"a">>, <<"b">>, <<"a", SP, "b">>}
SourceNounUniverse == {<<"a">>, <<"b">>, <<DOTLESS>>}

\* what a loaded exclusion set may hold
UsedAdjUniverse == {<<"a">>, <<"b">>}
UsedNounUniverse == {<<"b">>, <<"i">>, <<DOTLESS>>}

\* the lines a log file may hold before the first run
InitialLines == {<<>>, <<<<"A", SP, "B">>>>, <<<<"b">>>>, <<<<"b">>, <<"A", SP, "B">>>>}

\* the characters of an arbitrary log file
LogChars == {"a", "B", SP, NL}

SeqsUpTo(S, n) == UNION {[1..k -> S] : k \in 0..n}

SubsetsUpTo(S, n) == {T \in SUBSET S : Cardinality(T) <= n}

RECURSIVE Concat(_)
Concat(ss) == IF ss = <<>> THEN <<>> ELSE Head(ss) \o Concat(Tail(ss))

\* the lines, each ended by "\n" except maybe the last
LogOf(lines, ended) ==
  LET text == Concat([i \in 1..Len(lines) |-> lines[i] \o <<NL>>])
  IN  IF ended \/ text = <<>> THEN text ELSE SubSeq(text, 1, Len(text) - 1)

InitialLogs == {LogOf(ls, e) : ls \in InitialLines, e \in BOOLEAN}

\* ------------------------------------------------------------------ word sources
\* what the environment can answer when a word file is opened and read
FileOutcomes == {"ok", "FileNotFoundError", "UnicodeDecodeError"}

\* what it can answer to the request: the JSON object with the list under the
\* key, an object without the key, no answer, no JSON, JSON that is an array
UrlOutcomes == {"ok", "no_key", "RequestException", "JSONDecodeError", "array"}

\* what a call gives back: the value returned and whether a diagnostic was
\* printed, or the exception that left the function
Returned(value, diag) == [raised |-> "", value |-> value, diag |-> diag]
Raised(e) == [raised |-> e, value |-> <<>>, diag |-> FALSE]

load_words_from_file(source, outcome) ==
  CASE outcome = "ok" -> Returned(source, FALSE)
    [] outcome = "FileNotFoundError" -> Returned(<<>>, TRUE)
    [] outcome = "UnicodeDecodeError" -> Returned(<<>>, TRUE)
    [] OTHER -> Raised(outcome)

fetch_words_from_url(source, outcome) ==
  CASE outcome = "ok" -> Returned(source, source = <<>>)
    [] outcome = "no_key" -> Returned(<<>>, TRUE)
    [] outcome = "RequestException" -> Returned(<<>>, TRUE)
    [] outcome = "JSONDecodeError" -> Returned(<<>>, TRUE)
    [] outcome = "array" -> Raised("AttributeError")
    [] OTHER -> Raised(outcome)

\* the messages printed by a call that printed a diagnostic or did not
Said(diag, msg) == IF diag THEN {msg} ELSE {}

get_words(adjective_file, noun_file, oa, on) ==
  LET a == IF adjective_file THEN load_words_from_file(adj_source, oa)
           ELSE fetch_words_from_url(adj_source, oa)
      n == IF noun_file THEN load_words_from_file(noun_source, on)
           ELSE fetch_words_from_url(noun_source, on)
      said_a == Said(a.diag, "adjectives not loaded")
      said_n == Said(n.diag, "nouns not loaded")
  IN  IF a.raised # "" THEN [raised |-> a.raised, value |-> <<>>, msgs |-> {}]
      ELSE IF n.raised # "" THEN [raised |-> n.raised, value |-> <<>>, msgs |-> said_a]
      ELSE [raised |-> "", value |-> <<a.value, n.value>>, msgs |-> said_a \cup said_n]

Outcomes(is_file) == IF is_file THEN FileOutcomes ELSE UrlOutcomes

\* ------------------------------------------------------------------ exclusion loader
load_used_code_names(exists, content, outcome) ==
  CASE ~exists -> Returned(<<{}, {}>>, TRUE)
    [] outcome = "ok" -> Returned(ParseUsed(FileLines(content), {}, {}), FALSE)
    [] OTHER -> Raised(outcome)

\* what reading an existing log file can answer
LogOutcomes == {"ok", "UnicodeDecodeError"}

\* ------------------------------------------------------------------ sampler
\* a variant of the filter that compares the words as they are
AvailableCaseSensitive(words, used) == SelectSeq(words, LAMBDA w : w \notin used)

\* a variant of the filter that keeps every word
AvailableAll(words, used) == words

\* [x for x in words if x.lower() not in used]
Available(words, used) == SelectSeq(words, LAMBDA w : lower(w) \notin used)

\* ------------------------------------------------------------------ persister
\* what opening the log file for append and writing can answer
AppendOutcomes == {"ok", "IOError"}

\* the file after file.write(f"{code_name}\n") in mode 'a'
Appended(content, name) == content \o name \o <<NL>>

\* ------------------------------------------------------------------ runs of main
Idle(p) == pc[p] \in {"idle", "done", "crashed"}

\* no run has started
InitIdle ==
  /\ pc = [p \in Procs |-> "idle"]
  /\ used_code_names_file = [p \in Procs |-> FALSE]
  /\ adjectives = [p \in Procs |-> <<>>]
  /\ nouns = [p \in Procs |-> <<>>]
  /\ used_adjectives = [p \in Procs |-> {}]
  /\ used_nouns = [p \in Procs |-> {}]

InitLocals ==
  /\ append = [p \in Procs |-> FALSE]
  /\ available_adjectives = [p \in Procs |-> <<>>]
  /\ available_nouns = [p \in Procs |-> <<>>]
  /\ adj = [p \in Procs |-> None]
  /\ noun = [p \in Procs |-> None]
  /\ code_name = [p \in Procs |-> None]
  /\ draws = [p \in Procs |-> 0]
  /\ ret_line = [p \in Procs |-> 0]
  /\ printed = [p \in Procs |-> {}]
  /\ printed_name = [p \in Procs |-> None]
  /\ exc = [p \in Procs |-> ""]
  /\ log_at_start = [p \in Procs |-> [exists |-> FALSE, content |-> <<>>]]
  /\ used_at_call = [p \in Procs |-> <<{}, {}>>]
  /\ seen = [p \in Procs |-> 0]

\* the command line: main(adjective_file, noun_file, used_code_names_file, append)
Enter(p, used, app) ==
  /\ pc' = [pc EXCEPT ![p] = "get_words"]
  /\ used_code_names_file' = [used_code_names_file EXCEPT ![p] = used]
  /\ append' = [append EXCEPT ![p] = app]
  /\ adjectives' = [adjectives EXCEPT ![p] = <<>>]
  /\ nouns' = [nouns EXCEPT ![p] = <<>>]
  /\ used_adjectives' = [used_adjectives EXCEPT ![p] = {}]
  /\ used_nouns' = [used_nouns EXCEPT ![p] = {}]
  /\ available_adjectives' = [available_adjectives EXCEPT ![p] = <<>>]
  /\ available_nouns' = [available_nouns EXCEPT ![p] = <<>>]
  /\ adj' = [adj EXCEPT ![p] = None]
  /\ noun' = [noun EXCEPT ![p] = None]
  /\ code_name' = [code_name EXCEPT ![p] = None]
  /\ draws' = [draws EXCEPT ![p] = 0]
  /\ ret_line' = [ret_line EXCEPT ![p] = 0]
  /\ printed' = [printed EXCEPT ![p] = {}]
  /\ printed_name' = [printed_name EXCEPT ![p] = None]
  /\ exc' = [exc EXCEPT ![p] = ""]
  /\ log_at_start' = [log_at_start EXCEPT ![p] = [exists |-> log_exists, content |-> log]]
  /\ used_at_call' = [used_at_call EXCEPT ![p] = <<{}, {}>>]
  /\ seen' = [seen EXCEPT ![p] = 0]
  /\ runs' = runs + 1
  /\ UNCHANGED <<file_vars, source_vars, appends, earlier>>

\* one run after the other: a run starts when no run is under way
StartRun(p) ==
  /\ \A q \in Procs : Idle(q)
  /\ runs < MaxRuns
  /\ \E used \in BOOLEAN, app \in BOOLEAN : Enter(p, used, app)

\* two invocations side by side with a log path and the append flag: each
\* starts once, whatever the other does
StartConcurrent(p) ==
  /\ pc[p] = "idle"
  /\ Enter(p, TRUE, TRUE)

\* main, line 162
GetWords(p) ==
  /\ pc[p] = "get_words"
  /\ \E adjective_file \in BOOLEAN, noun_file \in BOOLEAN :
       \E oa \in Outcomes(adjective_file), on \in Outcomes(noun_file) :
         LET r == get_words(adjective_file, noun_file, oa, on)
         IN  /\ printed' = [printed EXCEPT ![p] = @ \cup r.msgs]
             /\ IF r.raised # ""
                THEN /\ pc' = [pc EXCEPT ![p] = "crashed"]
                     /\ exc' = [exc EXCEPT ![p] = r.raised]
                     /\ UNCHANGED word_vars
                ELSE /\ pc' = [pc EXCEPT ![p] = "check_words"]
                     /\ adjectives' = [adjectives EXCEPT ![p] = r.value[1]]
                     /\ nouns' = [nouns EXCEPT ![p] = r.value[2]]
                     /\ exc' = exc
  /\ UNCHANGED <<file_vars, source_vars, runs, appends, earlier, arg_vars, used_vars,
                 sampler_vars, printed_name, hist_vars>>

\* main, lines 163-165
CheckWords(p) ==
  /\ pc[p] = "check_words"
  /\ IF adjectives[p] = <<>> \/ nouns[p] = <<>>
     THEN /\ printed' = [printed EXCEPT ![p] = @ \cup {"Error: Adjective or noun list is empty."}]
          /\ pc' = [pc EXCEPT ![p] = "done"]
     ELSE /\ pc' = [pc EXCEPT ![p] = "load_used"]
          /\ printed' = printed
  /\ UNCHANGED <<file_vars, source_vars, runs, appends, earlier, arg_vars, word_vars,
                 used_vars, sampler_vars, printed_name, exc, hist_vars>>

\* main, lines 167-169
LoadUsed(p) ==
  /\ pc[p] = "load_used"
  /\ \E outcome \in LogOutcomes :
       LET r == IF used_code_names_file[p]
                THEN load_used_code_names(log_exists, log, outcome)
                ELSE Returned(<<{}, {}>>, FALSE)
       IN  /\ printed' = [printed EXCEPT ![p] = @ \cup Said(r.diag, "File not found.")]
           /\ IF r.raised # ""
              THEN /\ pc' = [pc EXCEPT ![p] = "crashed"]
                   /\ exc' = [exc EXCEPT ![p] = r.raised]
                   /\ UNCHANGED used_vars
              ELSE /\ pc' = [pc EXCEPT ![p] = "generate"]
                   /\ used_adjectives' = [used_adjectives EXCEPT ![p] = r.value[1]]
                   /\ used_nouns' = [used_nouns EXCEPT ![p] = r.value[2]]
                   /\ exc' = exc
  /\ seen' = [seen EXCEPT ![p] = appends]
  /\ UNCHANGED <<file_vars, source_vars, runs, appends, earlier, arg_vars, word_vars,
                 sampler_vars, printed_name, log_at_start, used_at_call>>

\* generate_unique_code_name, lines 141-146
Filter(p) ==
  /\ pc[p] = "generate"
  /\ LET aa == Available(adjectives[p], used_adjectives[p])
         nn == Available(nouns[p], used_nouns[p])
     IN  /\ available_adjectives' = [available_adjectives EXCEPT ![p] = aa]
         /\ available_nouns' = [available_nouns EXCEPT ![p] = nn]
         /\ IF aa = <<>> \/ nn = <<>>
            THEN /\ printed' = [printed EXCEPT ![p] = @ \cup {"No more unique code names available."}]
                 /\ ret_line' = [ret_line EXCEPT ![p] = 146]
                 /\ pc' = [pc EXCEPT ![p] = "report"]
            ELSE /\ pc' = [pc EXCEPT ![p] = "while"]
                 /\ UNCHANGED <<printed, ret_line>>
  /\ used_at_call' = [used_at_call EXCEPT ![p] = <<used_adjectives[p], used_nouns[p]>>]
  /\ UNCHANGED <<file_vars, source_vars, runs, appends, earlier, arg_vars, word_vars,
                 used_vars, adj, noun, code_name, draws, printed_name, exc,
                 log_at_start, seen>>

\* a variant of the update that adds the word as it is
MarkedRaw(used, word) == used \cup {word}

\* lines 154 and 155: used.add(word.lower())
Marked(used, word) == used \cup {lower(word)}

\* the acceptance test of line 153
Accepted(a, n, ua, un) == lower(a) \notin ua /\ lower(n) \notin un

\* generate_unique_code_name, lines 148-158: the loop test and one pass of the body
LoopIter(p) ==
  /\ pc[p] = "while"
  /\ IF available_adjectives[p] # <<>> /\ available_nouns[p] # <<>>
     THEN \E i \in DOMAIN available_adjectives[p], j \in DOMAIN available_nouns[p] :
            LET a == available_adjectives[p][i]
                n == available_nouns[p][j]
            IN  /\ adj' = [adj EXCEPT ![p] = Some(a)]
                /\ noun' = [noun EXCEPT ![p] = Some(n)]
                /\ draws' = [draws EXCEPT ![p] = @ + 1]
                /\ IF Accepted(a, n, used_adjectives[p], used_nouns[p])
                   THEN /\ used_adjectives' = [used_adjectives EXCEPT ![p] = Marked(@, a)]
                        /\ used_nouns' = [used_nouns EXCEPT ![p] = Marked(@, n)]
                        /\ code_name' = [code_name EXCEPT ![p] = Some(upper(Join(a, n)))]
                        /\ ret_line' = [ret_line EXCEPT ![p] = 156]
                        /\ pc' = [pc EXCEPT ![p] = "report"]
                   ELSE UNCHANGED <<used_vars, code_name, ret_line, pc>>
     ELSE /\ ret_line' = [ret_line EXCEPT ![p] = 158]
          /\ pc' = [pc EXCEPT ![p] = "report"]
          /\ UNCHANGED <<used_vars, adj, noun, code_name, draws>>
  /\ UNCHANGED <<file_vars, source_vars, runs, appends, earlier, arg_vars, word_vars,
                 available_adjectives, available_nouns, out_vars, hist_vars>>

\* a variant of the test that ignores the append flag
ShouldAppendAnyway(app, used) == used

\* the test of line 174
ShouldAppend(app, used) == app /\ used

\* main, lines 172-177, up to the call of line 175
Report(p) ==
  /\ pc[p] = "report"
  /\ IF code_name[p] # None /\ code_name[p][1] # <<>>
     THEN /\ printed' = [printed EXCEPT ![p] = @ \cup {"Generated code name:"}]
          /\ printed_name' = [printed_name EXCEPT ![p] = code_name[p]]
          /\ pc' = [pc EXCEPT ![p] =
                      IF ShouldAppend(append[p], used_code_names_file[p]) THEN "append" ELSE "done"]
     ELSE /\ printed' = [printed EXCEPT ![p] = @ \cup {"No unique code names could be generated."}]
          /\ pc' = [pc EXCEPT ![p] = "done"]
          /\ UNCHANGED printed_name
  /\ UNCHANGED <<file_vars, source_vars, runs, appends, earlier, arg_vars, word_vars,
                 used_vars, sampler_vars, exc, hist_vars>>

\* append_to_used_code_names_file, lines 52-56
AppendName(p) ==
  /\ pc[p] = "append"
  /\ \E outcome \in AppendOutcomes :
       IF outcome = "ok"
       THEN /\ log' = Appended(log, code_name[p][1])
            /\ log_exists' = TRUE
            /\ appends' = appends + 1
            /\ earlier' = earlier \cup {[adj |-> adj[p][1], noun |-> noun[p][1]]}
            /\ UNCHANGED printed
       ELSE /\ printed' = [printed EXCEPT ![p] = @ \cup {"Error writing to file"}]
            /\ UNCHANGED <<file_vars, appends, earlier>>
  /\ pc' = [pc EXCEPT ![p] = "done"]
  /\ UNCHANGED <<source_vars, runs, arg_vars, word_vars, used_vars, sampler_vars,
                 printed_name, exc, hist_vars>>

\* ------------------------------------------------------------------ specifications
InitGlobals ==
  /\ runs = 0
  /\ appends = 0
  /\ earlier = {}

\* the word sources and the log file before the first run
InitWorld ==
  /\ adj_source \in SeqsUpTo(SourceAdjUniverse, MaxSourceWords) \ {<<>>}
  /\ noun_source \in SeqsUpTo(SourceNounUniverse, MaxSourceWords) \ {<<>>}
  /\ log_exists \in BOOLEAN
  /\ log \in IF log_exists THEN InitialLogs ELSE {<<>>}

Init == InitWorld /\ InitGlobals /\ InitIdle /\ InitLocals

Step(p) ==
  \/ GetWords(p)
  \/ CheckWords(p)
  \/ LoadUsed(p)
  \/ Filter(p)
  \/ LoopIter(p)
  \/ Report(p)
  \/ AppendName(p)

\* runs of main, one after the other
Next == StartRun(1) \/ Step(1)

Spec == Init /\ [][Next]_vars

\* two invocations of main on the same log file
NextConcurrent == \E p \in Procs : StartConcurrent(p) \/ Step(p)

SpecConcurrent == Init /\ [][NextConcurrent]_vars

\* the exclusion loader alone, on any log file within the bound
InitLoad ==
  /\ adj_source = <<>>
  /\ noun_source = <<>>
  /\ log_exists \in BOOLEAN
  /\ log \in IF log_exists THEN SeqsUpTo(LogChars, MaxLogLen) ELSE {<<>>}
  /\ InitGlobals
  /\ InitLocals
  /\ pc = [p \in Procs |-> IF p = 1 THEN "load_used" ELSE "idle"]
  /\ used_code_names_file = [p \in Procs |-> p = 1]
  /\ adjectives = [p \in Procs |-> <<>>]
  /\ nouns = [p \in Procs |-> <<>>]
  /\ used_adjectives = [p \in Procs |-> {}]
  /\ used_nouns = [p \in Procs |-> {}]

NextLoad == LoadUsed(1)

SpecLoad == InitLoad /\ [][NextLoad]_vars

\* the sampler alone, on any lists and exclusion sets within the bounds
InitGen ==
  /\ adj_source = <<>>
  /\ noun_source = <<>>
  /\ log_exists = FALSE
  /\ log = <<>>
  /\ InitGlobals
  /\ InitLocals
  /\ pc = [p \in Procs |-> IF p = 1 THEN "generate" ELSE "idle"]
  /\ used_code_names_file = [p \in Procs |-> FALSE]
  /\ \E a \in SeqsUpTo(AdjUniverse, MaxWords), n \in SeqsUpTo(NounUniverse, MaxWords) :
       /\ adjectives = [p \in Procs |-> IF p = 1 THEN a ELSE <<>>]
       /\ nouns = [p \in Procs |-> IF p = 1 THEN n ELSE <<>>]
  /\ \E ua \in SubsetsUpTo(UsedAdjUniverse, MaxUsed), un \in SubsetsUpTo(UsedNounUniverse, MaxUsed) :
       /\ used_adjectives = [p \in Procs |-> IF p = 1 THEN ua ELSE {}]
       /\ used_nouns = [p \in Procs |-> IF p = 1 THEN un ELSE {}]

NextGen == Filter(1) \/ LoopIter(1)

SpecGen == InitGen /\ [][NextGen]_vars

\* ------------------------------------------------------------------ properties
\* the sampler has gone through its filter
Called(p) == pc[p] \in {"while", "report"}

\* the sampler has returned
Returned156(p) == pc[p] = "report" /\ ret_line[p] = 156

\* the places of `words` whose lower case is outside `used`
Free(words, used) == {i \in DOMAIN words : lower(words[i]) \notin used}

\* C1: when an adjective and a noun are outside the exclusion sets the sampler
\* was called with, it returns UPPER(a) + " " + UPPER(n) for such an a of the
\* adjective list and such an n of the noun list.
C1_CodeNameComposed ==
  \A p \in Procs :
    (/\ pc[p] = "report"
     /\ Free(adjectives[p], used_at_call[p][1]) # {}
     /\ Free(nouns[p], used_at_call[p][2]) # {})
    => /\ code_name[p] # None
       /\ \E i \in Free(adjectives[p], used_at_call[p][1]),
             j \in Free(nouns[p], used_at_call[p][2]) :
            code_name[p][1] = upper(adjectives[p][i]) \o <<SP>> \o upper(nouns[p][j])

\* a name of a mixed-case adjective was returned while other words were excluded
C1_Witness ==
  /\ Returned156(1)
  /\ adj[1] = Some(<<"A">>)
  /\ code_name[1] = Some(<<"A", SP, "I">>)
  /\ used_at_call[1][2] # {}
  /\ Len(adjectives[1]) = 2

\* C2: after the sampler returned the name built from a and n, the used-adjective
\* set is its value at the call plus lower(a), the used-noun set its value at
\* the call plus lower(n).
C2_ExclusionSetsGrow ==
  \A p \in Procs :
    Returned156(p)
    => /\ code_name[p] = Some(upper(adj[p][1]) \o <<SP>> \o upper(noun[p][1]))
       /\ used_adjectives[p] = used_at_call[p][1] \cup {lower(adj[p][1])}
       /\ used_nouns[p] = used_at_call[p][2] \cup {lower(noun[p][1])}

\* an upper-case adjective was chosen and its lower case joined a non-empty set
C2_Witness ==
  /\ Returned156(1)
  /\ adj[1] = Some(<<"A">>)
  /\ used_at_call[1][1] = {<<"b">>}
  /\ used_adjectives[1] = {<<"a">>, <<"b">>}

\* C3: when every adjective, or every noun, is excluded at the call, the sampler
\* returns None without a draw and leaves both exclusion sets as they were.
C3_Exhausted ==
  \A p \in Procs :
    (/\ Called(p)
     /\ \/ Free(adjectives[p], used_at_call[p][1]) = {}
        \/ Free(nouns[p], used_at_call[p][2]) = {})
    => /\ pc[p] = "report"
       /\ ret_line[p] = 146
       /\ code_name[p] = None
       /\ draws[p] = 0
       /\ used_adjectives[p] = used_at_call[p][1]
       /\ used_nouns[p] = used_at_call[p][2]

\* every adjective of a two-word list is excluded through its lower case while a
\* noun is free
C3_Witness ==
  /\ pc[1] = "report"
  /\ ret_line[1] = 146
  /\ adjectives[1] = << <<"a">>, <<"A">> >>
  /\ used_adjectives[1] = {<<"a">>}
  /\ Free(nouns[1], used_nouns[1]) # {}

\* C8: a pass through the loop body always returns: the loop is never entered a
\* second time and the return after the loop is never taken.
C8_FirstDrawReturns ==
  \A p \in Procs :
    /\ pc[p] = "while" => draws[p] = 0
    /\ draws[p] <= 1
    /\ ret_line[p] # 158
    /\ (pc[p] = "report" /\ ret_line[p] # 146) => (draws[p] = 1 /\ ret_line[p] = 156)

\* the loop returned after one draw from lists that excluded words had been
\* filtered out of
C8_Witness ==
  /\ Returned156(1)
  /\ draws[1] = 1
  /\ Len(available_adjectives[1]) < Len(adjectives[1])
  /\ Len(available_nouns[1]) < Len(nouns[1])

\* the stretches <<i, j>> of text s between two line ends that hold no line end
LineSpans(s) ==
  {ij \in (1..Len(s) + 1) \X (0..Len(s)) :
     /\ ij[1] <= ij[2] + 1
     /\ ij[1] = 1 \/ s[ij[1] - 1] = NL
     /\ ij[2] = Len(s) \/ s[ij[2] + 1] = NL
     /\ \A k \in ij[1]..ij[2] : s[k] # NL}

\* the stretches <<k, l>> of non-blank characters of s[i..j] with a blank or an
\* end of the line on either side
TokenSpans(s, i, j) ==
  {kl \in (i..j) \X (i..j) :
     /\ kl[1] <= kl[2]
     /\ \A m \in kl[1]..kl[2] : ~IsSpace(s[m])
     /\ kl[1] = i \/ IsSpace(s[kl[1] - 1])
     /\ kl[2] = j \/ IsSpace(s[kl[2] + 1])}

\* the lines of s that hold exactly two tokens
TwoTokenLines(s) == {ij \in LineSpans(s) : Cardinality(TokenSpans(s, ij[1], ij[2])) = 2}

\* the leftmost and the rightmost token of a line
FirstToken(s, ij) ==
  LET ts == TokenSpans(s, ij[1], ij[2])
      t == CHOOSE t \in ts : \A u \in ts : t[1] <= u[1]
  IN  SubSeq(s, t[1], t[2])

LastToken(s, ij) ==
  LET ts == TokenSpans(s, ij[1], ij[2])
      t == CHOOSE t \in ts : \A u \in ts : t[1] >= u[1]
  IN  SubSeq(s, t[1], t[2])

\* C4: from an existing log file the loader returns the lower-cased first tokens
\* and the lower-cased second tokens of the lines that hold exactly two tokens,
\* and nothing else.
C4_LoadedSets ==
  \A p \in Procs :
    (pc[p] = "generate" /\ used_code_names_file[p] /\ log_exists)
    => /\ used_adjectives[p] = {lower(FirstToken(log, ij)) : ij \in TwoTokenLines(log)}
       /\ used_nouns[p] = {lower(LastToken(log, ij)) : ij \in TwoTokenLines(log)}

\* the lines "B a" and "a B" were loaded
C4_Witness ==
  /\ pc[1] = "generate"
  /\ log = <<"B", SP, "a", NL, "a", SP, "B">>
  /\ used_adjectives[1] = {<<"a">>, <<"b">>}
  /\ used_nouns[1] = {<<"a">>, <<"b">>}

\* the log file as a pair, to compare it with the one a run started from
File == [exists |-> log_exists, content |-> log]

\* the run has a name and is told to append it
Appending(p) ==
  /\ append[p]
  /\ used_code_names_file[p]
  /\ code_name[p] # None

\* C9: a run leaves the log file as it found it, unless the append flag is set, a
\* log path is given and the sampler produced a name; then the only change is
\* one append of that name.
C9_LogFrame ==
  \A p \in Procs :
    pc[p] # "idle"
    => \/ File = log_at_start[p]
       \/ /\ Appending(p)
          /\ pc[p] = "done"
          /\ File = [exists |-> TRUE,
                     content |-> Appended(log_at_start[p].content, code_name[p][1])]

\* a run without the append flag ended with a name and grown exclusion sets, the
\* log file untouched
C9_Witness ==
  /\ pc[1] = "done"
  /\ ~append[1]
  /\ used_code_names_file[1]
  /\ code_name[1] # None
  /\ used_adjectives[1] # used_at_call[1][1]
  /\ used_nouns[1] # used_at_call[1][2]
  /\ log_exists
  /\ log # <<>>
  /\ File = log_at_start[1]

\* C5: a run that appended leaves the prior lines of the log file as they were
\* and the name it printed as one more line at the end.
C5_NewFinalLine ==
  \A p \in Procs :
    (pc[p] = "done" /\ Appending(p) /\ "Error writing to file" \notin printed[p])
    => /\ printed_name[p] = code_name[p]
       /\ FileLines(log) =
            FileLines(log_at_start[p].content) \o <<printed_name[p][1] \o <<NL>>>>

\* C6: no run of main ends by an exception that leaves main.
C6_NoUnhandledException == \A p \in Procs : pc[p] # "crashed"

\* the two words are the same when case is ignored
SameWord(v, w) == lower(v) = lower(w)

\* C7: a name generated with the log file given shares neither its adjective nor
\* its noun with a name an earlier run of the sequence appended.
C7_NoReuse ==
  \A p \in Procs :
    (pc[p] \in {"report", "append"} /\ used_code_names_file[p] /\ code_name[p] # None)
    => \A e \in earlier :
         /\ ~SameWord(e.adj, adj[p][1])
         /\ ~SameWord(e.noun, noun[p][1])

\* the word is written to the log as one token that lower-cases back to it
ReadBack(w) == Len(split(upper(w))) = 1 /\ lower(upper(w)) = lower(w)

\* the text is empty or its last line is ended
Ended(text) == text = <<>> \/ text[Len(text)] = NL

\* the run appended its name to the log file
AppendedBy(p) ==
  /\ pc[p] = "done"
  /\ Appending(p)
  /\ "Error writing to file" \notin printed[p]

\* the names of the two runs have the adjective or the noun in common
Sharing(p, q) ==
  \/ SameWord(adj[p][1], adj[q][1])
  \/ SameWord(noun[p][1], noun[q][1])

\* C10: with words that read back and a log file whose last line is ended, two
\* invocations that both appended names sharing an adjective or a noun both
\* read the log file before either appended: the outcome exists (the witness)
\* and no order in which one reads after the other's append gives it.
C10_SharingOnlyByRace ==
  \A p, q \in Procs :
    (/\ p # q
     /\ AppendedBy(p)
     /\ AppendedBy(q)
     /\ Sharing(p, q)
     /\ \A i \in DOMAIN adj_source : ReadBack(adj_source[i])
     /\ \A i \in DOMAIN noun_source : ReadBack(noun_source[i])
     /\ Ended(log_at_start[p].content)
     /\ Ended(log_at_start[q].content))
    => (seen[p] = 0 /\ seen[q] = 0)

\* both invocations read the empty log file, then both appended the same name
C10_Witness ==
  /\ AppendedBy(1)
  /\ AppendedBy(2)
  /\ Sharing(1, 2)
  /\ seen[1] = 0
  /\ seen[2] = 0
  /\ adj_source = << <<"a">> >>
  /\ noun_source = << <<"b">> >>
  /\ log_at_start[1] = [exists |-> TRUE, content |-> <<>>]
  /\ log = <<"A", SP, "B", NL, "A", SP, "B", NL>>

====
